---------------------------- MODULE Spec2Model ----------------------------
(***************************************************************************)
(* Model of the s3-client command line tool (src/main.go).                 *)
(*                                                                         *)
(* One run of the program is one behaviour: flag parsing, configuration    *)
(* resolution, client construction, dispatch to exactly one of List,       *)
(* Delete and Upload, and process exit.  Strings are sequences of          *)
(* one-character strings, so that trimming, joining, cleaning and case     *)
(* folding are computed character by character as the Go library does.     *)
(***************************************************************************)
EXTENDS Integers, Sequences, FiniteSets, TLC

(***************************************************************************)
(* Bounds of the model.                                                    *)
(***************************************************************************)
MaxDirLen == 2      \* longest enumerated -directory value
MaxUrlLen == 1      \* longest enumerated returnurl value
MaxStdinLen == 2    \* longest enumerated standard input
MaxPages == 2       \* most list pages a run retrieves

(***************************************************************************)
(* Generic sequence helpers.                                               *)
(***************************************************************************)
RECURSIVE Strs(_, _)
Strs(alphabet, n) ==
    IF n = 0 THEN {<<>>}
    ELSE LET shorter == Strs(alphabet, n - 1)
         IN  shorter \cup {Append(s, c) : s \in {t \in shorter : Len(t) = n - 1},
                                          c \in alphabet}

Last(s) == s[Len(s)]

Chars(s) == {s[i] : i \in 1..Len(s)}

(***************************************************************************)
(* package strings                                                         *)
(***************************************************************************)
RECURSIVE TrimLeft(_, _)
TrimLeft(s, cutset) ==
    IF s /= <<>> /\ s[1] \in cutset THEN TrimLeft(Tail(s), cutset) ELSE s

RECURSIVE TrimRight(_, _)
TrimRight(s, cutset) ==
    IF s /= <<>> /\ Last(s) \in cutset
    THEN TrimRight(SubSeq(s, 1, Len(s) - 1), cutset)
    ELSE s

Trim(s, cutset) == TrimLeft(TrimRight(s, cutset), cutset)

TrimPrefix(s, prefix) ==
    IF Len(s) >= Len(prefix) /\ SubSeq(s, 1, Len(prefix)) = prefix
    THEN SubSeq(s, Len(prefix) + 1, Len(s))
    ELSE s

WhiteSpace == {" ", "\n", "\t", "\r"}

TrimSpace(s) == Trim(s, WhiteSpace)

LowerOf(c) == IF c = "Y" THEN "y" ELSE IF c = "N" THEN "n" ELSE c

ToLower(s) == [i \in 1..Len(s) |-> LowerOf(s[i])]

(***************************************************************************)
(* bufio.Reader.ReadString: the input up to and including the first        *)
(* delimiter, or all of it when the delimiter never comes (the error is    *)
(* discarded by the caller).                                               *)
(***************************************************************************)
RECURSIVE ReadString(_, _)
ReadString(input, delim) ==
    IF input = <<>> THEN <<>>
    ELSE IF input[1] = delim THEN <<delim>>
    ELSE <<input[1]>> \o ReadString(Tail(input), delim)

(***************************************************************************)
(* package path/filepath, for the two families of build targets.           *)
(* Volume names (drive letters, UNC and device prefixes) are not           *)
(* modelled; WinVolumeLike marks the inputs that would need them.          *)
(***************************************************************************)
GOOS == {"unix", "windows"}

Separator(os) == IF os = "windows" THEN "\\" ELSE "/"

IsPathSeparator(c, os) == c = "/" \/ (os = "windows" /\ c = "\\")

\* The path elements between separators, empty ones included.
RECURSIVE SplitPath(_, _, _)
SplitPath(path, cur, os) ==
    IF path = <<>> THEN <<cur>>
    ELSE IF IsPathSeparator(path[1], os)
         THEN <<cur>> \o SplitPath(Tail(path), <<>>, os)
         ELSE SplitPath(Tail(path), Append(cur, path[1]), os)

\* The element-by-element pass of Clean over a stack of kept elements.
RECURSIVE CleanElems(_, _, _)
CleanElems(elems, out, rooted) ==
    IF elems = <<>> THEN out
    ELSE LET e == elems[1]
             rest == Tail(elems)
         IN  IF e = <<>> \/ e = <<".">> THEN CleanElems(rest, out, rooted)
             ELSE IF e = <<".", ".">>
             THEN IF out /= <<>> /\ Last(out) /= <<".", ".">>
                  THEN CleanElems(rest, SubSeq(out, 1, Len(out) - 1), rooted)
                  ELSE IF rooted THEN CleanElems(rest, out, rooted)
                  ELSE CleanElems(rest, Append(out, e), rooted)
             ELSE CleanElems(rest, Append(out, e), rooted)

RECURSIVE JoinElems(_, _)
JoinElems(elems, sep) ==
    IF elems = <<>> THEN <<>>
    ELSE IF Len(elems) = 1 THEN elems[1]
    ELSE elems[1] \o <<sep>> \o JoinElems(Tail(elems), sep)

Clean(path, os) ==
    IF path = <<>> THEN <<".">>
    ELSE LET rooted == IsPathSeparator(path[1], os)
             kept == CleanElems(SplitPath(path, <<>>, os), <<>>, rooted)
             body == JoinElems(kept, Separator(os))
         IN  IF rooted THEN <<Separator(os)>> \o body
             ELSE IF body = <<>> THEN <<".">>
             ELSE body

\* filepath.Join of two elements.
Join(a, b, os) ==
    IF a = <<>> /\ b = <<>> THEN <<>>
    ELSE IF a = <<>> THEN Clean(b, os)
    ELSE IF os = "windows"
    THEN LET b2 == IF IsPathSeparator(Last(a), os)
                   THEN TrimLeft(b, {"/", "\\"}) ELSE <<"\\">> \o b
         IN  Clean(a \o (IF b = <<>> THEN <<>> ELSE b2), os)
    ELSE Clean(a \o <<"/">> \o b, os)

ToSlash(path, os) ==
    IF Separator(os) = "/" THEN path
    ELSE [i \in 1..Len(path) |-> IF path[i] = Separator(os) THEN "/" ELSE path[i]]

\* os.FileInfo.Name: the last element of the path that was opened.
BaseName(path, os) ==
    LET elems == SplitPath(TrimRight(path, {c \in {"/", "\\"} : IsPathSeparator(c, os)}),
                           <<>>, os)
    IN  IF path = <<>> THEN <<>>
        ELSE IF Last(elems) = <<>> THEN <<Separator(os)>>
        ELSE Last(elems)

WinVolumeLike(path) ==
    Len(path) >= 2 /\ path[1] \in {"/", "\\"} /\ path[2] \in {"/", "\\"}

(***************************************************************************)
(* Inputs of a run.                                                        *)
(***************************************************************************)
Str_photo_png == <<"p", "h", "o", "t", "o", ".", "p", "n", "g">>

Str_pics == <<"p", "i", "c", "s">>

Str_cdn == <<"h", "t", "t", "p", "s", ":", "/", "/", "c", "d", "n", ".",
             "e", "x", "a", "m", "p", "l", "e", ".", "c", "o", "m">>

DirAlphabet == {"/", "\\", "p"}

ExampleDirs == {<<"/">> \o Str_pics, Str_pics \o <<"/">>, <<".", ".">>}

DirArgs == Strs(DirAlphabet, MaxDirLen) \cup ExampleDirs

UrlAlphabet == {"u", "/"}

ReturnUrls == Strs(UrlAlphabet, MaxUrlLen) \cup {Str_cdn, Str_cdn \o <<"/">>}

StdinAlphabet == {"y", "Y", "n", " ", "\n"}

StdinContents == Strs(StdinAlphabet, MaxStdinLen)

FileArgs == {<<>>, Str_photo_png, <<"d", "/", "f">>}

DeleteArgs == {<<>>, <<"k">>, <<"/", "k">>}

ConfigArgs == {"", "custom.toml"}

FileStates == {"ok", "missing", "unopenable"}

(***************************************************************************)
(* State of a run.                                                         *)
(***************************************************************************)
VARIABLES
    pc,          \* position in main / listBucketFiles / deleteS3File
    exitCode,    \* -1 while running, then the process exit code
    out,         \* lines printed to standard output, as message tags
    calls,       \* SDK calls made so far, with their outcome
    goos,        \* build target family
    configArg,   \* -config as given on the command line
    configPath,  \* *configPath, overwritten by the default search
    listFiles,   \* -list
    deleteFile,  \* -delete
    filePath,    \* -file
    directory,   \* -directory
    overwrite,   \* -overwrite
    env,         \* what the run found in its environment
    probed,      \* default config locations given to os.Stat, in order
    returnurl,   \* setting read from the config file
    clientBuilt, \* s3.NewFromConfig has run
    op,          \* operation the dispatcher entered
    key,         \* object key of the upload or the delete
    response,    \* line read from the overwrite prompt
    remoteObj,   \* what is known of the object at key in the bucket
    fullURL,     \* URL reported by a successful upload
    pages        \* list pages printed so far

vars == <<pc, exitCode, out, calls, goos, configArg, configPath, listFiles,
          deleteFile, filePath, directory, overwrite, env, probed, returnurl,
          clientBuilt, op, key, response, remoteObj, fullURL, pages>>

flagVars == <<goos, configArg, listFiles, deleteFile, filePath, directory, overwrite>>

NoEnv == [homeDir |-> "unread", cwdConfig |-> "unread", homeConfig |-> "unread",
          file |-> "unread", head |-> "unread"]

Init ==
    /\ pc = "start"
    /\ exitCode = -1
    /\ out = <<>>
    /\ calls = <<>>
    /\ goos \in GOOS
    /\ configArg = ""
    /\ configPath = ""
    /\ listFiles = FALSE
    /\ deleteFile = <<>>
    /\ filePath = <<>>
    /\ directory = <<>>
    /\ overwrite = FALSE
    /\ env = NoEnv
    /\ probed = <<>>
    /\ returnurl = <<>>
    /\ clientBuilt = FALSE
    /\ op = ""
    /\ key = <<>>
    /\ response = <<>>
    /\ remoteObj = "unknown"
    /\ fullURL = <<>>
    /\ pages = 0

\* os.Exit(code) after printing msg.
Exit(code, msg) ==
    /\ pc' = "exited"
    /\ exitCode' = code
    /\ out' = Append(out, msg)

Call(api, k, ok) == [api |-> api, key |-> k, ok |-> ok]

(***************************************************************************)
(* main: flags.  -v and -force-path-style are left out: the first only     *)
(* adds two printed lines before the success line, the second is handed to *)
(* the client constructor; neither decides a branch.                       *)
(***************************************************************************)
FlagParse ==
    /\ pc = "start"
    /\ configArg' \in ConfigArgs
    /\ listFiles' \in BOOLEAN
    /\ deleteFile' \in DeleteArgs
    /\ filePath' \in FileArgs
    /\ overwrite' \in BOOLEAN
    /\ directory' \in {d \in DirArgs :
                          goos = "windows" => ~WinVolumeLike(Trim(d, {"/"}))}
    /\ configPath' = configArg'
    /\ pc' = "config"
    /\ UNCHANGED <<exitCode, out, calls, goos, env, probed, returnurl, clientBuilt,
                   op, key, response, remoteObj, fullURL, pages>>

(***************************************************************************)
(* main: configuration resolution.                                         *)
(***************************************************************************)
CwdConfig == "s3config.toml"

HomeConfig == "~/.config/s3-client/s3config.toml"

ConfigLocationsHomeFirst == <<HomeConfig, CwdConfig>>

ConfigLocations == <<CwdConfig, HomeConfig>>

\* The loop over configLocations: the first location os.Stat accepts, and
\* the locations it was asked about.
RECURSIVE FirstExisting(_, _, _)
FirstExisting(locs, exists, asked) ==
    IF locs = <<>> THEN [path |-> "", probed |-> asked]
    ELSE IF exists[locs[1]] THEN [path |-> locs[1], probed |-> Append(asked, locs[1])]
    ELSE FirstExisting(Tail(locs), exists, Append(asked, locs[1]))

ConfigGiven ==
    /\ pc = "config"
    /\ configPath /= ""
    /\ pc' = "read_config"
    /\ UNCHANGED <<exitCode, out, calls, flagVars, configPath, env, probed, returnurl,
                   clientBuilt, op, key, response, remoteObj, fullURL, pages>>

ConfigSearch ==
    /\ pc = "config"
    /\ configPath = ""
    /\ \E homeOK \in BOOLEAN, cwd \in BOOLEAN, home \in BOOLEAN :
          LET exists == [l \in {CwdConfig, HomeConfig} |->
                            IF l = CwdConfig THEN cwd ELSE home]
              found == FirstExisting(ConfigLocations, exists, <<>>)
          IN  /\ env' = [env EXCEPT !.homeDir = IF homeOK THEN "ok" ELSE "error",
                                    !.cwdConfig = IF cwd THEN "exists" ELSE "absent",
                                    !.homeConfig = IF home THEN "exists" ELSE "absent"]
              /\ IF ~homeOK
                 THEN /\ Exit(1, "Error getting user home directory")
                      /\ UNCHANGED <<configPath, probed>>
                 ELSE /\ configPath' = found.path
                      /\ probed' = found.probed
                      /\ IF found.path = ""
                         THEN Exit(1, "No config file found")
                         ELSE /\ pc' = "read_config"
                              /\ UNCHANGED <<exitCode, out>>
    /\ UNCHANGED <<calls, flagVars, returnurl, clientBuilt, op, key, response,
                   remoteObj, fullURL, pages>>

ReadInConfig ==
    /\ pc = "read_config"
    /\ \/ /\ Exit(1, "Error reading config file")
          /\ UNCHANGED returnurl
       \/ /\ returnurl' \in ReturnUrls
          /\ pc' = "aws_config"
          /\ UNCHANGED <<exitCode, out>>
    /\ UNCHANGED <<calls, flagVars, configPath, env, probed, clientBuilt, op, key,
                   response, remoteObj, fullURL, pages>>

LoadDefaultConfig ==
    /\ pc = "aws_config"
    /\ \/ /\ Exit(1, "Error loading AWS config")
          /\ UNCHANGED clientBuilt
       \/ /\ clientBuilt' = TRUE
          /\ pc' = "dispatch"
          /\ UNCHANGED <<exitCode, out>>
    /\ UNCHANGED <<calls, flagVars, configPath, env, probed, returnurl, op, key,
                   response, remoteObj, fullURL, pages>>

(***************************************************************************)
(* main: dispatch.                                                         *)
(***************************************************************************)
ChooseOpDeleteFirst(list, del, file) ==
    IF del /= <<>> THEN "delete"
    ELSE IF list THEN "list"
    ELSE IF file = <<>> THEN "none"
    ELSE "upload"

ChooseOp(list, del, file) ==
    IF list THEN "list"
    ELSE IF del /= <<>> THEN "delete"
    ELSE IF file = <<>> THEN "none"
    ELSE "upload"

Dispatch ==
    /\ pc = "dispatch"
    /\ op' = ChooseOp(listFiles, deleteFile, filePath)
    /\ IF op' = "none"
       THEN /\ Exit(1, "No file specified for upload")
            /\ UNCHANGED env
       ELSE /\ pc' = IF op' = "upload" THEN "stat" ELSE op'
            /\ IF op' = "upload"
               THEN \E st \in FileStates : env' = [env EXCEPT !.file = st]
               ELSE UNCHANGED env
            /\ UNCHANGED <<exitCode, out>>
    /\ UNCHANGED <<calls, flagVars, configPath, probed, returnurl, clientBuilt, key,
                   response, remoteObj, fullURL, pages>>

(***************************************************************************)
(* main: upload.                                                           *)
(***************************************************************************)
IsNotExistNever(st) == FALSE

\* os.IsNotExist of the error os.Stat returns for a file in state st.
IsNotExist(st) == st = "missing"

StatFile ==
    /\ pc = "stat"
    /\ IF IsNotExist(env.file)
       THEN Exit(1, "File does not exist")
       ELSE /\ pc' = "open"
            /\ UNCHANGED <<exitCode, out>>
    /\ UNCHANGED <<calls, flagVars, configPath, env, probed, returnurl, clientBuilt,
                   op, key, response, remoteObj, fullURL, pages>>

ObjectKey(file, dir, os) ==
    LET name == BaseName(file, os)
        joined == IF dir /= <<>> THEN Join(Trim(dir, {"/"}), name, os) ELSE name
    IN  ToSlash(joined, os)

OpenFile ==
    /\ pc = "open"
    /\ IF env.file /= "ok"
       THEN /\ Exit(1, "Error opening file")
            /\ UNCHANGED key
       ELSE /\ key' = ObjectKey(filePath, directory, goos)
            /\ pc' = "head"
            /\ UNCHANGED <<exitCode, out>>
    /\ UNCHANGED <<calls, flagVars, configPath, env, probed, returnurl, clientBuilt,
                   op, response, remoteObj, fullURL, pages>>

NeedsPromptWhenExists(headOk, ow) == headOk

\* err == nil && !*overwrite
NeedsPrompt(headOk, ow) == headOk /\ ~ow

HeadObject ==
    /\ pc = "head"
    /\ \E res \in {"ok", "notfound", "error"} :
          /\ calls' = Append(calls, Call("HeadObject", key, res = "ok"))
          /\ env' = [env EXCEPT !.head = res]
          /\ remoteObj' = CASE res = "ok" -> "present"
                            [] res = "notfound" -> "absent"
                            [] OTHER -> "unknown"
          /\ pc' = IF NeedsPrompt(res = "ok", overwrite) THEN "prompt" ELSE "upload"
    /\ UNCHANGED <<exitCode, out, flagVars, configPath, probed, returnurl, clientBuilt,
                   op, key, response, fullURL, pages>>

DeclinedOnlyOnN(resp) == ToLower(TrimSpace(resp)) = <<"n">>

\* strings.ToLower(strings.TrimSpace(response)) != "y"
Declined(resp) == ToLower(TrimSpace(resp)) /= <<"y">>

Prompt ==
    /\ pc = "prompt"
    /\ \E stdin \in StdinContents :
          /\ response' = ReadString(stdin, "\n")
          /\ IF Declined(response')
             THEN /\ out' = out \o <<"Overwrite? [y/n] > ", "Upload cancelled.">>
                  /\ pc' = "exited"
                  /\ exitCode' = 0
             ELSE /\ out' = Append(out, "Overwrite? [y/n] > ")
                  /\ pc' = "upload"
                  /\ UNCHANGED exitCode
    /\ UNCHANGED <<calls, flagVars, configPath, env, probed, returnurl, clientBuilt,
                   op, key, remoteObj, fullURL, pages>>

Upload ==
    /\ pc = "upload"
    /\ \E ok \in BOOLEAN :
          /\ calls' = Append(calls, Call("Upload", key, ok))
          /\ IF ok
             THEN /\ remoteObj' = "present"
                  /\ pc' = "report"
                  /\ UNCHANGED <<exitCode, out>>
             ELSE /\ Exit(1, "Error uploading file to S3")
                  /\ UNCHANGED remoteObj
    /\ UNCHANGED <<flagVars, configPath, env, probed, returnurl, clientBuilt, op, key,
                   response, fullURL, pages>>

FullURLUntrimmed(url, k) == url \o <<"/">> \o k

\* fmt.Sprintf("%s/%s", TrimRight(returnurl, "/"), TrimLeft(key, "/"))
FullURL(url, k) == TrimRight(url, {"/"}) \o <<"/">> \o TrimLeft(k, {"/"})

Report ==
    /\ pc = "report"
    /\ fullURL' = FullURL(returnurl, key)
    /\ out' = Append(out, "Successfully uploaded. File URL")
    /\ pc' = "exited"
    /\ exitCode' = 0
    /\ UNCHANGED <<calls, flagVars, configPath, env, probed, returnurl, clientBuilt,
                   op, key, response, remoteObj, pages>>

(***************************************************************************)
(* listBucketFiles                                                         *)
(***************************************************************************)
ListStart ==
    /\ pc = "list"
    /\ out' = Append(out, "Files in bucket")
    /\ pc' = "list_page"
    /\ UNCHANGED <<exitCode, calls, flagVars, configPath, env, probed, returnurl,
                   clientBuilt, op, key, response, remoteObj, fullURL, pages>>

\* One turn of the paginator loop: NextPage, then the page's items, then
\* HasMorePages (more: the page came with a continuation token).
ListNextPage ==
    /\ pc = "list_page"
    /\ \E ok \in BOOLEAN, more \in BOOLEAN :
          /\ calls' = Append(calls, Call("ListObjectsV2", <<>>, ok))
          /\ IF ~ok
             THEN /\ Exit(1, "Error listing files")
                  /\ UNCHANGED pages
             ELSE /\ pages' = pages + 1
                  /\ out' = Append(out, "- items of a page")
                  /\ IF more /\ pages' < MaxPages
                     THEN /\ pc' = "list_page"
                          /\ UNCHANGED exitCode
                     ELSE /\ pc' = "exited"
                          /\ exitCode' = 0
    /\ UNCHANGED <<flagVars, configPath, env, probed, returnurl, clientBuilt, op, key,
                   response, remoteObj, fullURL>>

(***************************************************************************)
(* deleteS3File                                                            *)
(***************************************************************************)
\* The maxWaitDur argument the program gives to waiter.Wait.
MaxWaitDur == 0

\* s3.ObjectNotExistsWaiter.Wait: the SDK refuses a maximum wait that is not
\* positive before it polls; otherwise it polls HeadObject until the object
\* is reported absent or the maximum wait has passed.
WaitForOutput(maxWaitDur, obj) ==
    IF maxWaitDur <= 0 THEN "invalid max wait"
    ELSE IF obj = "absent" THEN "ok"
    ELSE "timeout"

DeleteObjectUnchecked ==
    /\ pc = "delete"
    /\ key' = TrimPrefix(deleteFile, <<"/">>)
    /\ \E ok \in BOOLEAN :
          /\ calls' = Append(calls, Call("DeleteObject", key', ok))
          /\ remoteObj' \in {"absent", "present"}
          /\ pc' = "wait"
    /\ UNCHANGED <<exitCode, out, flagVars, configPath, env, probed, returnurl,
                   clientBuilt, op, response, fullURL, pages>>

DeleteObject ==
    /\ pc = "delete"
    /\ key' = TrimPrefix(deleteFile, <<"/">>)
    /\ \E ok \in BOOLEAN :
          /\ calls' = Append(calls, Call("DeleteObject", key', ok))
          /\ IF ~ok
             THEN /\ Exit(1, "Error deleting file")
                  /\ UNCHANGED remoteObj
             ELSE \* the store may go on reporting the object for a while
                  /\ remoteObj' \in {"absent", "present"}
                  /\ pc' = "wait"
                  /\ UNCHANGED <<exitCode, out>>
    /\ UNCHANGED <<flagVars, configPath, env, probed, returnurl, clientBuilt, op,
                   response, fullURL, pages>>

DeleteWait ==
    /\ pc = "wait"
    /\ LET res == WaitForOutput(MaxWaitDur, remoteObj)
       IN  /\ calls' = Append(calls, Call("ObjectNotExistsWaiter.Wait", key, res = "ok"))
           /\ IF res /= "ok"
              THEN Exit(1, "Error waiting for file deletion")
              ELSE /\ out' = Append(out, "Successfully deleted file")
                   /\ pc' = "exited"
                   /\ exitCode' = 0
    /\ UNCHANGED <<flagVars, configPath, env, probed, returnurl, clientBuilt, op, key,
                   response, remoteObj, fullURL, pages>>

(***************************************************************************)
(* The program.                                                            *)
(***************************************************************************)
Next ==
    \/ FlagParse
    \/ ConfigGiven
    \/ ConfigSearch
    \/ ReadInConfig
    \/ LoadDefaultConfig
    \/ Dispatch
    \/ StatFile
    \/ OpenFile
    \/ HeadObject
    \/ Prompt
    \/ Upload
    \/ Report
    \/ ListStart
    \/ ListNextPage
    \/ DeleteObject
    \/ DeleteWait

Spec == Init /\ [][Next]_vars

(***************************************************************************)
(* Vocabulary of the properties.                                           *)
(***************************************************************************)
Exited == pc = "exited"

Apis == {calls[i].api : i \in 1..Len(calls)}

Wrote == "Upload" \in Apis

Printed(line) == \E i \in 1..Len(out) : out[i] = line

\* resp is a single y or Y with nothing but white space around it.
SaysYes(resp) ==
    \E i \in 1..Len(resp) :
        /\ resp[i] \in {"y", "Y"}
        /\ \A j \in 1..Len(resp) : j /= i => resp[j] \in WhiteSpace

\* The operation the flags ask for: list before delete before upload.
Expected ==
    CASE listFiles -> "list"
      [] ~listFiles /\ deleteFile /= <<>> -> "delete"
      [] ~listFiles /\ deleteFile = <<>> /\ filePath /= <<>> -> "upload"
      [] OTHER -> "none"

OpApis(o) ==
    CASE o = "list" -> {"ListObjectsV2"}
      [] o = "delete" -> {"DeleteObject", "ObjectNotExistsWaiter.Wait"}
      [] o = "upload" -> {"HeadObject", "Upload"}
      [] OTHER -> {}

ErrorLine(api) ==
    CASE api = "Upload" -> "Error uploading file to S3"
      [] api = "DeleteObject" -> "Error deleting file"
      [] api = "ObjectNotExistsWaiter.Wait" -> "Error waiting for file deletion"
      [] api = "ListObjectsV2" -> "Error listing files"
      [] OTHER -> "no line"

\* url is base without its trailing slashes, one slash, k without its
\* leading slashes.
UrlShape(url, base, k) ==
    \E i \in 0..Len(base), j \in 1..(Len(k) + 1) :
        /\ \A n \in (i + 1)..Len(base) : base[n] = "/"
        /\ i > 0 => base[i] /= "/"
        /\ \A n \in 1..(j - 1) : k[n] = "/"
        /\ j <= Len(k) => k[j] /= "/"
        /\ url = SubSeq(base, 1, i) \o <<"/">> \o SubSeq(k, j, Len(k))

Str_example_url == Str_cdn \o <<"/">> \o Str_pics \o <<"/">> \o Str_photo_png

(***************************************************************************)
(* C1: with overwrite=false and an existence check that found the object,  *)
(* every response to the prompt other than a y (any case, white space      *)
(* trimmed; the empty line and end of input included) aborts the upload:   *)
(* the prompt was shown, no write call is made and the process has exited  *)
(* with code 0 after printing the cancellation line.                       *)
(***************************************************************************)
C1_DeclineAborts ==
    (~overwrite /\ env.head = "ok" /\ pc /= "prompt" /\ ~SaysYes(response))
        => /\ Printed("Overwrite? [y/n] > ")
           /\ Exited
           /\ exitCode = 0
           /\ ~Wrote
           /\ Last(out) = "Upload cancelled."

C1_Witness ==
    /\ Exited
    /\ ~overwrite
    /\ env.head = "ok"
    /\ response = <<"n", "\n">>
    /\ exitCode = 0
    /\ Apis = {"HeadObject"}

(***************************************************************************)
(* C2: with overwrite=true, whatever the existence check returned (object  *)
(* exists, object absent, the check failing), the program does not prompt  *)
(* and goes on to the write call.                                          *)
(***************************************************************************)
C2_OverwriteNeverBlocked ==
    (overwrite /\ env.head /= "unread")
        => /\ ~Printed("Overwrite? [y/n] > ")
           /\ pc /= "prompt"
           /\ (pc = "upload" \/ Wrote)

C2_Witness ==
    /\ overwrite
    /\ env.head = "ok"
    /\ Wrote
    /\ Exited

(***************************************************************************)
(* C3: an upload whose -file names a file that does not exist makes no     *)
(* remote call at any point and terminates with the file-not-found line    *)
(* and exit code 1: until it has, its one possible step is the check that  *)
(* ends it.                                                                *)
(***************************************************************************)
UploadOfMissingFile == op = "upload" /\ env.file = "missing"

C3_MissingFileFailsFirst ==
    UploadOfMissingFile
        => /\ calls = <<>>
           /\ \/ Exited /\ exitCode = 1 /\ Last(out) = "File does not exist"
              \/ pc = "stat" /\ ENABLED StatFile

C3_Witness ==
    /\ UploadOfMissingFile
    /\ Exited
    /\ exitCode = 1
    /\ Last(out) = "File does not exist"
    /\ calls = <<>>

(***************************************************************************)
(* C4: the object key the upload computes, the one used for the existence  *)
(* check and for the write, has no leading slash and no backslash,         *)
(* whatever separator style the -directory value was written in.           *)
(***************************************************************************)
C4_KeyNormalised ==
    (op = "upload" /\ key /= <<>>)
        => /\ key[1] /= "/"
           /\ "\\" \notin Chars(key)
           /\ \A i \in 1..Len(calls) : calls[i].key = key

(***************************************************************************)
(* C5: the delete operation prints its success line and exits 0 only after *)
(* the delete request succeeded and the waiter then confirmed the object   *)
(* absent, both for the -delete value without its leading slash.           *)
(***************************************************************************)
C5_SuccessOnlyAfterConfirmedAbsence ==
    Printed("Successfully deleted file")
        => /\ Len(calls) = 2
           /\ calls[1] = Call("DeleteObject", TrimPrefix(deleteFile, <<"/">>), TRUE)
           /\ calls[2] = Call("ObjectNotExistsWaiter.Wait", calls[1].key, TRUE)
           /\ remoteObj = "absent"
           /\ Exited
           /\ exitCode = 0

\* No run prints the success line of the delete operation.
DeleteNeverReportsSuccess == ~Printed("Successfully deleted file")

(***************************************************************************)
(* C6, as claimed: a failed remote call of any kind (the existence check   *)
(* included) is the last call of the run, and the process has exited with  *)
(* a non-zero code.                                                        *)
(***************************************************************************)
C6_EveryErrorTerminal ==
    \A i \in 1..Len(calls) :
        ~calls[i].ok => (i = Len(calls) /\ Exited /\ exitCode /= 0)

(***************************************************************************)
(* C6, amended: a failed write, delete request, absence wait or list page  *)
(* is the last call of the run, its error line is the last line printed    *)
(* and the process has exited with code 1; a failed existence check is not *)
(* terminal: the upload goes on to the write call without prompting.       *)
(***************************************************************************)
C6_ErrorsTerminalButHead ==
    \A i \in 1..Len(calls) :
        ~calls[i].ok =>
            IF calls[i].api = "HeadObject"
            THEN /\ ~Printed("Overwrite? [y/n] > ")
                 /\ pc /= "prompt"
                 /\ (pc = "upload" \/ Wrote)
            ELSE /\ i = Len(calls)
                 /\ Exited
                 /\ exitCode = 1
                 /\ Last(out) = ErrorLine(calls[i].api)

C6_Witness ==
    /\ Exited
    /\ pages = 1
    /\ Len(calls) = 2
    /\ ~calls[2].ok
    /\ Last(out) = "Error listing files"

(***************************************************************************)
(* C7: whatever combination of -list, -delete and -file is given, the run  *)
(* makes the calls of at most one operation, list before delete before     *)
(* upload; with none of the three it makes no remote call and exits with   *)
(* code 1, after the guidance line once the dispatcher has been reached.   *)
(***************************************************************************)
C7_OneOperation ==
    pc /= "start"
        => /\ Apis \subseteq OpApis(Expected)
           /\ op \in {"", Expected}
           /\ (Expected = "none" /\ Exited)
                 => /\ exitCode = 1
                    /\ calls = <<>>
                    /\ clientBuilt => Last(out) = "No file specified for upload"

C7_Witness ==
    /\ listFiles
    /\ deleteFile /= <<>>
    /\ filePath /= <<>>
    /\ Exited
    /\ exitCode = 0
    /\ Apis = {"ListObjectsV2"}

(***************************************************************************)
(* C8: the URL a successful upload reports is the return-URL without its   *)
(* trailing slashes, one slash, and the object key without its leading     *)
(* slashes; returnurl https://cdn.example.com, with or without a trailing  *)
(* slash, file photo.png and directory /pics give                          *)
(* https://cdn.example.com/pics/photo.png.                                 *)
(***************************************************************************)
C8_ReportedURL ==
    Printed("Successfully uploaded. File URL")
        => /\ UrlShape(fullURL, returnurl, key)
           /\ (/\ returnurl \in {Str_cdn, Str_cdn \o <<"/">>}
               /\ directory = <<"/">> \o Str_pics
               /\ filePath = Str_photo_png)
                 => fullURL = Str_example_url

C8_Witness ==
    /\ Exited
    /\ returnurl = Str_cdn \o <<"/">>
    /\ directory = <<"/">> \o Str_pics
    /\ filePath = Str_photo_png
    /\ fullURL = Str_example_url

(***************************************************************************)
(* C9, as claimed: a given -config is used and nothing is probed; without  *)
(* it the current-directory file is chosen if it exists, else the per-user *)
(* file if it exists; with neither the run ends with the config-not-found  *)
(* line and a non-zero code, no client built and no remote call made.      *)
(***************************************************************************)
ConfigResolved == pc \notin {"start", "config"}

C9_Resolution(homeKnown) ==
    /\ configArg /= "" => (configPath = configArg /\ probed = <<>>)
    /\ (configArg = "" /\ homeKnown /\ env.cwdConfig = "exists")
          => (configPath = CwdConfig /\ probed = <<CwdConfig>>)
    /\ (configArg = "" /\ homeKnown /\ env.cwdConfig = "absent"
            /\ env.homeConfig = "exists")
          => (configPath = HomeConfig /\ probed = <<CwdConfig, HomeConfig>>)
    /\ (configArg = "" /\ homeKnown /\ env.cwdConfig = "absent"
            /\ env.homeConfig = "absent")
          => /\ Exited
             /\ exitCode = 1
             /\ out = <<"No config file found">>
             /\ ~clientBuilt
             /\ calls = <<>>

C9_ConfigResolution == ConfigResolved => C9_Resolution(TRUE)

(***************************************************************************)
(* C9, amended: the above holds when the user's home directory can be      *)
(* determined; when -config is absent and it cannot, the run ends with the *)
(* home-directory error line and code 1 before probing any location, even  *)
(* if the current-directory file exists.                                   *)
(***************************************************************************)
C9_ConfigResolutionWithHome ==
    ConfigResolved
        => /\ C9_Resolution(env.homeDir = "ok")
           /\ (configArg = "" /\ env.homeDir = "error")
                 => /\ Exited
                    /\ exitCode = 1
                    /\ out = <<"Error getting user home directory">>
                    /\ probed = <<>>
                    /\ ~clientBuilt
                    /\ calls = <<>>

C9_Witness ==
    /\ configArg = ""
    /\ env.cwdConfig = "absent"
    /\ env.homeConfig = "exists"
    /\ configPath = HomeConfig
    /\ Exited
    /\ exitCode = 0

(***************************************************************************)
(* C10: a delete whose request succeeded and whose object is absent when   *)
(* the wait starts ends with the success line and exit code 0; the wait    *)
(* fails only when the object still exists.                                *)
(***************************************************************************)
C10_DeleteOfAbsentSucceeds ==
    (op = "delete" /\ Exited /\ calls[1].ok)
        => /\ remoteObj = "absent"
                 => (exitCode = 0 /\ Last(out) = "Successfully deleted file")
           /\ exitCode /= 0 => remoteObj = "present"

=============================================================================
